---- MODULE Spec2Model ----
(***************************************************************************)
(* Dynamic MCP server: the per-session tool registry, the tools/call       *)
(* dispatcher and the two mutation policies of the repository.             *)
(*                                                                         *)
(*   policy = "unlock"   src/src/dynamicMcpServer.js  (greet unlocks three *)
(*                       tools)                                            *)
(*   policy = "sliding"  src/src/index.js  (followup_<timestamp> window,   *)
(*                       milestone_<n> and history_<n> tools)              *)
(*                                                                         *)
(* Both request handlers are JavaScript async functions.  A handler runs   *)
(* without interruption up to an await; the continuation after the await   *)
(* is a microtask that is queued behind the microtasks already pending.    *)
(* The model keeps that queue (microtasks) explicitly: requests that       *)
(* arrive in one batch are queued first, then the queue drains in FIFO     *)
(* order, and a continuation is appended to the tail at every await.       *)
(***************************************************************************)
EXTENDS Integers, Sequences, FiniteSets, TLC

(***************************************************************************)
(* Bounds of the model.                                                    *)
(***************************************************************************)
\* requests of the long scenario: one session, the client only greets
MaxCalls == 10
\* requests of the short scenario: one session, every input
MaxShort == 3
\* requests per session of the two-session scenario
MaxIsoCalls == 2
\* requests that may be pending together (one batch)
MaxBatch == 2
\* how many times Date.now() is seen to advance
MaxTicks == 10
\* requests of the scenario with a transport that may lose notifications
MaxLossy == 3
\* requests of the scenario in which the client calculates
MaxCalc == 2
\* the operands of the expressions it sends are -MaxOperand..MaxOperand
MaxOperand == 2
\* calls of a client that fills the window and then calls a minted followup
MaxPrune == 5
\* calls made one after another, the clock advancing between them
MaxSeq == 10
\* calls of addTool and removeTool made on a server object from outside
MaxStore == 4

(***************************************************************************)
(* Program constants.                                                      *)
(***************************************************************************)
\* .slice(0, -3): the followup_ tools kept by the pruning step
KeepFollowups == 3
\* this.callCount % 5 === 0
MilestoneEvery == 5
\* this.callCount % 3 === 0
HistoryEvery == 3
\* the first value of Date.now() the model sees; all readings of a run have
\* the same number of decimal digits, as 13-digit millisecond clocks have
ClockBase == 10

Sessions == {"A", "B"}
Policies == {"unlock", "sliding"}

(***************************************************************************)
(* Tool identifiers.  An identifier is a base string followed, for minted  *)
(* tools, by the decimal digits of a number (`followup_${timestamp}`,      *)
(* `milestone_${this.callCount}`); num = 0 stands for "no digits".         *)
(***************************************************************************)
ToolName(base) == [base |-> base, num |-> 0]
MintedName(base, n) == [base |-> base, num |-> n]
NoName == ToolName("")
Missing == ToolName("no_such_tool")

\* name.startsWith("followup_")
IsFollowupName(n) == n.base = "followup_"

(***************************************************************************)
(* Number.prototype.toString and the string order Array.prototype.sort     *)
(* uses by default (code units, left to right; a proper prefix is less).   *)
(***************************************************************************)
RECURSIVE Digits(_)
Digits(n) == IF n < 10 THEN <<n>> ELSE Append(Digits(n \div 10), n % 10)

RECURSIVE SeqLess(_, _)
SeqLess(a, b) ==
    IF a = <<>> THEN b # <<>>
    ELSE IF b = <<>> THEN FALSE
    ELSE IF Head(a) # Head(b) THEN Head(a) < Head(b)
    ELSE SeqLess(Tail(a), Tail(b))

\* the order of two identifiers with the same base
NameLess(a, b) == SeqLess(Digits(a.num), Digits(b.num))

\* names.sort(): the identifiers of S in ascending string order
RECURSIVE SortNames(_)
SortNames(S) ==
    IF S = {} THEN <<>>
    ELSE LET m == CHOOSE x \in S : \A y \in S \ {x} : NameLess(x, y)
         IN  <<m>> \o SortNames(S \ {m})

(***************************************************************************)
(* Text.  A string is a sequence of characters; a message the code returns *)
(* as a whole is a text of one element.  The operators are those the       *)
(* calculate tool uses, on the characters an arithmetic expression is      *)
(* written with: digits, the four operators, the minus sign, the blank.    *)
(***************************************************************************)
DigitChars == <<"0", "1", "2", "3", "4", "5", "6", "7", "8", "9">>
IsDigit(c) == \E k \in 1..Len(DigitChars) : DigitChars[k] = c
DigitValue(c) == (CHOOSE k \in 1..Len(DigitChars) : DigitChars[k] = c) - 1
Abs(n) == IF n < 0 THEN -n ELSE n

\* Number.prototype.toString of an integer
NumberToString(n) ==
    LET ds == Digits(Abs(n))
        text == [k \in 1..Len(ds) |-> DigitChars[ds[k] + 1]]
    IN  IF n < 0 THEN <<"-">> \o text ELSE text

\* expression.replace(/\s+/g, '')
StripWhitespace(t) == SelectSeq(t, LAMBDA c : c # " ")

\* String.prototype.includes and indexOf (positions count from 0)
Includes(t, c) == \E k \in 1..Len(t) : t[k] = c
IndexOf(t, c) ==
    IF Includes(t, c)
    THEN (CHOOSE k \in 1..Len(t) : t[k] = c /\ \A j \in 1..(k - 1) : t[j] # c) - 1
    ELSE -1

\* String.prototype.split on the characters of seps
RECURSIVE SplitOn(_, _)
SplitOn(t, seps) ==
    IF \A k \in 1..Len(t) : t[k] \notin seps THEN <<t>>
    ELSE LET k == CHOOSE i \in 1..Len(t) :
                      t[i] \in seps /\ \A j \in 1..(i - 1) : t[j] \notin seps
         IN  <<SubSeq(t, 1, k - 1)>> \o SplitOn(SubSeq(t, k + 1, Len(t)), seps)

\* the digits t starts with
RECURSIVE LeadingDigits(_)
LeadingDigits(t) ==
    IF t = <<>> \/ ~IsDigit(Head(t)) THEN <<>>
    ELSE <<Head(t)>> \o LeadingDigits(Tail(t))

RECURSIVE DigitsValue(_)
DigitsValue(ds) ==
    IF ds = <<>> THEN 0
    ELSE 10 * DigitsValue(SubSeq(ds, 1, Len(ds) - 1)) + DigitValue(ds[Len(ds)])

\* parseFloat: an optional sign and the digits that follow it; what comes
\* after the digits is ignored, and NaN is returned when there are none
parseFloat(t) ==
    LET signed == t # <<>> /\ Head(t) \in {"-", "+"}
        ds == LeadingDigits(IF signed THEN Tail(t) ELSE t)
        v == DigitsValue(ds)
    IN  [nan |-> ds = <<>>,
         val |-> IF signed /\ Head(t) = "-" THEN -v ELSE v]

\* (a / b).toString() for b # 0: the quotient where it is an integer
QuotientToString(a, b) ==
    IF Abs(a) % Abs(b) = 0
    THEN NumberToString(IF (a < 0) = (b < 0) THEN Abs(a) \div Abs(b)
                        ELSE -(Abs(a) \div Abs(b)))
    ELSE <<"a number with a fraction">>

\* the switch of evaluateExpression
Apply(operator, a, b) ==
    IF operator = "+" THEN NumberToString(a + b)
    ELSE IF operator = "-" THEN NumberToString(a - b)
    ELSE IF operator = "*" THEN NumberToString(a * b)
    ELSE IF operator = "/"
         THEN IF b = 0 THEN <<"Cannot divide by zero">> ELSE QuotientToString(a, b)
    ELSE <<"Unknown operation">>

\* dynamicMcpServer.js evaluateExpression, the search for the operator:
\* '+' first, then a '-' that is not the first character, then '*', '/'
FindOperator(clean) ==
    IF Includes(clean, "+")
    THEN [operator |-> "+", parts |-> SplitOn(clean, {"+"})]
    ELSE IF Includes(clean, "-") /\ IndexOf(clean, "-") > 0
    THEN [operator |-> "-", parts |-> SplitOn(clean, {"-"})]
    ELSE IF Includes(clean, "*")
    THEN [operator |-> "*", parts |-> SplitOn(clean, {"*"})]
    ELSE IF Includes(clean, "/")
    THEN [operator |-> "/", parts |-> SplitOn(clean, {"/"})]
    ELSE [operator |-> "none", parts |-> <<>>]

\* dynamicMcpServer.js evaluateExpression on a string
evaluateExpression(expression) ==
    LET found == FindOperator(StripWhitespace(expression))
        parts == found.parts
    IN  IF found.operator = "none" THEN <<"No valid operator found (+, -, *, /)">>
        ELSE IF Len(parts) # 2 \/ parts[1] = <<>> \/ parts[2] = <<>>
        THEN <<"Invalid expression format">>
        ELSE LET a == parseFloat(parts[1])
                 b == parseFloat(parts[2])
             IN  IF a.nan \/ b.nan THEN <<"Invalid numbers in expression">>
                 ELSE Apply(found.operator, a.val, b.val)

\* index.js evaluateExpression on a string: the expression is split on
\* every operator character, and the operation is an argument of its own
OperationOf(operator) ==
    IF operator = "+" THEN "add"
    ELSE IF operator = "-" THEN "subtract"
    ELSE IF operator = "*" THEN "multiply"
    ELSE "divide"
OperatorOf(operation) ==
    IF operation = "add" THEN "+"
    ELSE IF operation = "subtract" THEN "-"
    ELSE IF operation = "multiply" THEN "*"
    ELSE IF operation = "divide" THEN "/"
    ELSE "none"
evaluateExpressionWithOperation(expression, operation) ==
    LET parts == SplitOn(StripWhitespace(expression), {"+", "-", "*", "/"})
    IN  IF Len(parts) # 2 THEN <<"Invalid expression format">>
        ELSE LET a == parseFloat(parts[1])
                 b == parseFloat(parts[2])
             IN  IF a.nan \/ b.nan THEN <<"Invalid numbers in expression">>
                 ELSE Apply(OperatorOf(operation), a.val, b.val)

\* the text "a op b" a client writes for two integers
Expression(a, op, b) == NumberToString(a) \o <<" ", op, " ">> \o NumberToString(b)

(***************************************************************************)
(* Tool descriptors.  The schema and the text of a description are fixed   *)
(* by the kind of handler; what varies is what the template strings and    *)
(* the closures capture: the tool that was called and the call count at    *)
(* creation.                                                               *)
(***************************************************************************)
Descriptor(h, called, count) == [handler |-> h, calledTool |-> called, count |-> count]
NoTool == Descriptor("none", NoName, 0)

\* ([name, config]) => ({ name, description: config.description,
\* inputSchema: config.schema }): the handler is left out; the description
\* of a followup tool names the called tool and the count, that of a
\* milestone or history tool the count
ListEntry(desc) ==
    [description |-> [text |-> desc.handler,
                      calledTool |-> IF desc.handler = "followup"
                                     THEN desc.calledTool ELSE NoName,
                      count |-> desc.count],
     inputSchema |-> desc.handler]

\* a listing that leaves out the tools carrying their creation count
ListResultFixedOnly(reg) ==
    [n \in {m \in DOMAIN reg : m.num = 0} |-> ListEntry(reg[n])]

\* Array.from(this.tools.entries()).map(...)
ListResult(reg) == [n \in DOMAIN reg |-> ListEntry(reg[n])]

(***************************************************************************)
(* Tool Descriptor Store.  A registry is a function from identifiers to    *)
(* descriptors (a Map); an operation returns the new registry and the      *)
(* number of list-changed notifications it sent.                           *)
(***************************************************************************)
Has(reg, name) == name \in DOMAIN reg

\* a field kept in one place for all sessions
SetForAll(f, s, v) == [x \in DOMAIN f |-> v]

\* this.<field> = v on the server object of session s: every session has
\* its own object, with its own tools map and callCount
SetFor(f, s, v) == [f EXCEPT ![s] = v]

\* this.tools.set(name, config)
MapSet(reg, name, config) ==
    [n \in DOMAIN reg \cup {name} |-> IF n = name THEN config ELSE reg[n]]

\* a lookup that never misses: an unknown identifier runs the greet handler
MapGetOrGreet(reg, name) ==
    IF Has(reg, name) THEN reg[name] ELSE Descriptor("greet", NoName, 0)

\* a lookup in the registry as it was at construction: only greet is found
MapGetSeedOnly(reg, name) ==
    IF Has(reg, name) /\ reg[name].handler = "greet" THEN reg[name] ELSE NoTool

\* this.tools.get(name); NoTool stands for undefined
MapGet(reg, name) == IF Has(reg, name) THEN reg[name] ELSE NoTool

\* this.tools.delete(name)
MapDelete(reg, name) == [n \in DOMAIN reg \ {name} |-> reg[n]]

addTool(reg, name, config, notify) ==
    [tools |-> MapSet(reg, name, config), sent |-> IF notify THEN 1 ELSE 0]

\* a removeTool that notifies whenever it is asked to
removeToolNotifiesAnyway(reg, name, notify) ==
    [tools |-> MapDelete(reg, name),
     sent |-> IF notify THEN 1 ELSE 0,
     removed |-> Has(reg, name)]

removeTool(reg, name, notify) ==
    LET removed == Has(reg, name)
    IN  [tools |-> MapDelete(reg, name),
         sent |-> IF removed /\ notify THEN 1 ELSE 0,
         removed |-> removed]

RECURSIVE removeAll(_, _)
\* followupTools.forEach(toolName => this.removeTool(toolName, false))
removeAll(reg, names) ==
    IF names = <<>> THEN [tools |-> reg, sent |-> 0]
    ELSE LET r == removeTool(reg, Head(names), FALSE)
             rest == removeAll(r.tools, Tail(names))
         IN  [tools |-> rest.tools, sent |-> r.sent + rest.sent]

(***************************************************************************)
(* Mutation Policy Engine: updateToolsAfterCall.  The result is the new    *)
(* registry and the number of list-changed notifications sent during the   *)
(* pass.                                                                   *)
(***************************************************************************)
Greet == ToolName("greet")
Calculate == ToolName("calculate")
GetStatus == ToolName("get_status")
Followup == ToolName("followup")

\* an unlock pass that notifies on every addTool as well as at the end
UnlockUpdateNotifyEach(reg, calledTool) ==
    IF calledTool = Greet
    THEN LET a1 == addTool(reg, Calculate, Descriptor("calculate", NoName, 0), TRUE)
             a2 == addTool(a1.tools, GetStatus, Descriptor("get_status", NoName, 0), TRUE)
             a3 == addTool(a2.tools, Followup, Descriptor("followup", NoName, 0), TRUE)
         IN  [tools |-> a3.tools, sent |-> a1.sent + a2.sent + a3.sent + 1]
    ELSE [tools |-> reg, sent |-> 0]

\* an unlock pass that retires the seed tool once it has done its work
UnlockUpdateRetiresGreet(reg, calledTool) ==
    IF calledTool = Greet
    THEN LET a1 == addTool(reg, Calculate, Descriptor("calculate", NoName, 0), FALSE)
             a2 == addTool(a1.tools, GetStatus, Descriptor("get_status", NoName, 0), FALSE)
             a3 == addTool(a2.tools, Followup, Descriptor("followup", NoName, 0), FALSE)
             r  == removeTool(a3.tools, Greet, FALSE)
         IN  [tools |-> r.tools, sent |-> a1.sent + a2.sent + a3.sent + r.sent + 1]
    ELSE [tools |-> reg, sent |-> 0]

\* an unlock pass that unlocks in two stages: calculate on the first greet,
\* get_status and followup on the next
UnlockUpdateInStages(reg, calledTool) ==
    IF calledTool = Greet
    THEN LET a1 == addTool(reg, Calculate, Descriptor("calculate", NoName, 0), FALSE)
             a2 == addTool(a1.tools, GetStatus, Descriptor("get_status", NoName, 0), FALSE)
             a3 == addTool(a2.tools, Followup, Descriptor("followup", NoName, 0), FALSE)
         IN  [tools |-> IF Has(reg, Calculate) THEN a3.tools ELSE a1.tools, sent |-> 1]
    ELSE [tools |-> reg, sent |-> 0]

\* an unlock pass that notifies only when it changed the set of tools
UnlockUpdateNotifiesOnChange(reg, calledTool) ==
    IF calledTool = Greet
    THEN LET a1 == addTool(reg, Calculate, Descriptor("calculate", NoName, 0), FALSE)
             a2 == addTool(a1.tools, GetStatus, Descriptor("get_status", NoName, 0), FALSE)
             a3 == addTool(a2.tools, Followup, Descriptor("followup", NoName, 0), FALSE)
         IN  [tools |-> a3.tools,
              sent |-> IF DOMAIN a3.tools = DOMAIN reg THEN 0 ELSE 1]
    ELSE [tools |-> reg, sent |-> 0]

\* dynamicMcpServer.js: greet unlocks calculate, get_status and followup
UnlockUpdate(reg, calledTool) ==
    IF calledTool = Greet
    THEN LET a1 == addTool(reg, Calculate, Descriptor("calculate", NoName, 0), FALSE)
             a2 == addTool(a1.tools, GetStatus, Descriptor("get_status", NoName, 0), FALSE)
             a3 == addTool(a2.tools, Followup, Descriptor("followup", NoName, 0), FALSE)
         IN  [tools |-> a3.tools, sent |-> a1.sent + a2.sent + a3.sent + 1]
    ELSE [tools |-> reg, sent |-> 0]

\* a pass that prunes in a later step: nothing is removed during the pass
PruneLater(reg) == <<>>

\* a prune that also clears the milestone tools of earlier passes
PruneListWithMilestones(reg) ==
    LET sorted == SortNames({n \in DOMAIN reg : IsFollowupName(n)})
        old == SortNames({n \in DOMAIN reg : n.base = "milestone_"})
    IN  IF Len(sorted) > KeepFollowups
        THEN SubSeq(sorted, 1, Len(sorted) - KeepFollowups) \o old
        ELSE <<>>

\* Array.from(this.tools.keys()).filter(startsWith "followup_").sort().slice(0, -3)
PruneList(reg) ==
    LET sorted == SortNames({n \in DOMAIN reg : IsFollowupName(n)})
    IN  IF Len(sorted) > KeepFollowups
        THEN SubSeq(sorted, 1, Len(sorted) - KeepFollowups)
        ELSE <<>>

\* a pass that prunes before it mints the new followup
SlidingUpdatePrunesFirst(reg, calledTool, count, timestamp) ==
    LET r  == removeAll(reg, PruneList(reg))
        a1 == addTool(r.tools, MintedName("followup_", timestamp),
                      Descriptor("followup", calledTool, count), FALSE)
        a2 == IF count % MilestoneEvery = 0
              THEN addTool(a1.tools, MintedName("milestone_", count),
                           Descriptor("milestone", NoName, count), FALSE)
              ELSE [tools |-> a1.tools, sent |-> 0]
        a3 == IF count % HistoryEvery = 0
              THEN addTool(a2.tools, MintedName("history_", count),
                           Descriptor("history", calledTool, count), FALSE)
              ELSE [tools |-> a2.tools, sent |-> 0]
    IN  [tools |-> a3.tools, sent |-> a1.sent + r.sent + a2.sent + a3.sent + 1]

\* index.js: mint followup_<timestamp>, prune, milestone and history tools
SlidingUpdate(reg, calledTool, count, timestamp) ==
    LET a1 == addTool(reg, MintedName("followup_", timestamp),
                      Descriptor("followup", calledTool, count), FALSE)
        r  == removeAll(a1.tools, PruneList(a1.tools))
        a2 == IF count % MilestoneEvery = 0
              THEN addTool(r.tools, MintedName("milestone_", count),
                           Descriptor("milestone", NoName, count), FALSE)
              ELSE [tools |-> r.tools, sent |-> 0]
        a3 == IF count % HistoryEvery = 0
              THEN addTool(a2.tools, MintedName("history_", count),
                           Descriptor("history", calledTool, count), FALSE)
              ELSE [tools |-> a2.tools, sent |-> 0]
    IN  [tools |-> a3.tools, sent |-> a1.sent + r.sent + a2.sent + a3.sent + 1]

\* a pass that notifies and leaves the registry for later
UpdateNotApplied(pol, reg, calledTool, count, timestamp) ==
    [tools |-> reg, sent |-> 1]

updateToolsAfterCall(pol, reg, calledTool, count, timestamp) ==
    IF pol = "unlock" THEN UnlockUpdate(reg, calledTool)
    ELSE SlidingUpdate(reg, calledTool, count, timestamp)

\* a notifyToolsChanged that lets a failed send escape to its caller
notifyRethrows(delivered) == [lost |-> ~delivered, raised |-> ~delivered]

\* notifyToolsChanged: one send; a failure is caught and logged
notifyToolsChanged(delivered) == [lost |-> ~delivered, raised |-> FALSE]

\* a constructor that registers nothing
InitialToolsNone(pol) == <<>>

\* registerInitialTools
InitialTools(pol) ==
    IF pol = "unlock"
    THEN addTool(<<>>, Greet, Descriptor("greet", NoName, 0), FALSE).tools
    ELSE LET a1 == addTool(<<>>, Calculate, Descriptor("calculate", NoName, 0), FALSE)
             a2 == addTool(a1.tools, Greet, Descriptor("greet", NoName, 0), FALSE)
             a3 == addTool(a2.tools, GetStatus, Descriptor("get_status", NoName, 0), FALSE)
         IN  a3.tools

(***************************************************************************)
(* Tool handlers.  Every handler but get_status interpolates one of its    *)
(* arguments into a template string; a JSON value that cannot be converted *)
(* to a string (an object whose toString is not callable) makes the        *)
(* interpolation throw, and the handler's promise rejects.  The result     *)
(* records what the text is built from: the handler, the counter and the   *)
(* registry size read when the handler runs, the argument, and for         *)
(* calculate what evaluateExpression returned.  An argument is a string    *)
(* ("text"), left out ("missing") or a value that cannot be printed.       *)
(***************************************************************************)
Args == {"text", "unprintable"}

\* the expression argument of calculate when it is a string: two integers
\* and an operator between them
Operators == {"+", "-", "*", "/"}
Operands == (-MaxOperand)..MaxOperand
Expressions == [a : Operands, op : Operators, b : Operands]
DefaultExpr == [a |-> 8, op |-> "/", b |-> 2]
ExprText(e) == Expression(e.a, e.op, e.b)

\* the calculate handlers: evaluateExpression(expression) in
\* dynamicMcpServer.js, evaluateExpression(expression, operation) in
\* index.js; on an expression that is no string, expression.replace throws
\* and the catch returns the message of the TypeError
Evaluate(pol, arg, e) ==
    IF arg # "text" THEN <<"Error: expression.replace is not a function">>
    ELSE IF pol = "unlock" THEN evaluateExpression(ExprText(e))
    ELSE evaluateExpressionWithOperation(ExprText(e), OperationOf(e.op))

Result(name, h, count, size, text, calc) ==
    [kind |-> "result", isError |-> FALSE, tool |-> name, handler |-> h,
     count |-> count, size |-> size, text |-> text, calc |-> calc, after |-> NoName]
\* the text of a minted followup tool ends with "(This tool was created after
\* calling '${calledTool}')": the name its closure captured
CreatedAfter(desc, r) ==
    [r EXCEPT !.after = IF desc.handler = "followup" THEN desc.calledTool ELSE NoName]
\* a lookup inside the try block: the McpError is caught with the rest and
\* an unknown tool is answered with an isError response
NotFoundAsErrorResponse(name) ==
    [kind |-> "result", isError |-> TRUE, tool |-> name, handler |-> "none",
     count |-> 0, size |-> 0, text |-> "none", calc |-> <<>>, after |-> NoName]

\* throw new McpError(ErrorCode.MethodNotFound, ...)
Fault(name) ==
    [kind |-> "fault", isError |-> FALSE, tool |-> name, handler |-> "none",
     count |-> 0, size |-> 0, text |-> "none", calc |-> <<>>, after |-> NoName]
\* a catch branch that rethrows: the failure leaves as a protocol fault
ErrorAsFault(name) == Fault(name)

\* the catch branch: { content: [`Error executing ${name}: ...`], isError: true }
ErrorResult(name) ==
    [kind |-> "result", isError |-> TRUE, tool |-> name, handler |-> "none",
     count |-> 0, size |-> 0, text |-> "none", calc |-> <<>>, after |-> NoName]
NoResult ==
    [kind |-> "none", isError |-> FALSE, tool |-> NoName, handler |-> "none",
     count |-> 0, size |-> 0, text |-> "none", calc |-> <<>>, after |-> NoName]

\* a counter that counts every call twice
IncrementTwice(n) == n + 2

\* this.callCount++
Increment(n) == n + 1

HandlerThrows(desc, arg) == desc.handler # "get_status" /\ arg = "unprintable"

\* handlers that report the number of calls made before the running one
RunHandlerCountsEarlier(pol, name, desc, arg, e, count, reg) ==
    [threw |-> HandlerThrows(desc, arg),
     value |-> IF HandlerThrows(desc, arg) THEN NoResult
               ELSE CreatedAfter(desc, Result(name, desc.handler,
                           IF desc.handler \in {"greet", "get_status", "milestone", "history"}
                           THEN count - 1 ELSE 0,
                           IF desc.handler = "get_status"
                           THEN Cardinality(DOMAIN reg) ELSE 0,
                           IF desc.handler = "get_status" THEN "none" ELSE arg,
                           IF desc.handler = "calculate" THEN Evaluate(pol, arg, e)
                           ELSE <<>>))]

\* a handler that reports the counter as the next dispatch will leave it
RunHandlerCountsNext(pol, name, desc, arg, e, count, reg) ==
    [threw |-> HandlerThrows(desc, arg),
     value |-> IF HandlerThrows(desc, arg) THEN NoResult
               ELSE CreatedAfter(desc, Result(name, desc.handler,
                           IF desc.handler \in {"greet", "get_status", "milestone", "history"}
                           THEN count + 1 ELSE 0,
                           IF desc.handler = "get_status"
                           THEN Cardinality(DOMAIN reg) ELSE 0,
                           IF desc.handler = "get_status" THEN "none" ELSE arg,
                           IF desc.handler = "calculate" THEN Evaluate(pol, arg, e)
                           ELSE <<>>))]

\* tool.handler(args || {}): the counter is read by greet, get_status,
\* milestone and history; the registry size by get_status
RunHandler(pol, name, desc, arg, e, count, reg) ==
    [threw |-> HandlerThrows(desc, arg),
     value |-> IF HandlerThrows(desc, arg) THEN NoResult
               ELSE CreatedAfter(desc, Result(name, desc.handler,
                           IF desc.handler \in {"greet", "get_status", "milestone", "history"}
                           THEN count ELSE 0,
                           IF desc.handler = "get_status"
                           THEN Cardinality(DOMAIN reg) ELSE 0,
                           IF desc.handler = "get_status" THEN "none" ELSE arg,
                           IF desc.handler = "calculate" THEN Evaluate(pol, arg, e)
                           ELSE <<>>))]

(***************************************************************************)
(* State.                                                                  *)
(***************************************************************************)
VARIABLES
    policy,      \* which of the two programs runs
    scenario,    \* what the clients of this run send
    tools,       \* tools[s]: this.tools of session s
    callCount,   \* callCount[s]: this.callCount of session s
    clock,       \* the last value Date.now() returned
    notifs,      \* notifs[s]: list-changed notifications sent on session s
    lost,        \* lost[s]: how many of them the transport failed to deliver
    recent,      \* recent[s]: the last followup_ identifiers minted, oldest first
    req,         \* req[i]: the i-th request of the current batch
    microtasks,  \* the microtask queue: indices into req, head runs next
    quota,       \* quota[s]: requests the client of session s may still send
    storeCall    \* the last call of addTool or removeTool made from outside the class

vars == <<policy, scenario, tools, callCount, clock, notifs, lost, recent, req, microtasks,
          quota, storeCall>>

Slots == 1..MaxBatch

\* a call of a store method: its arguments and, for removeTool, its result
StoreCall(op, name, config, notify, removed) ==
    [op |-> op, name |-> name, config |-> config, notify |-> notify, removed |-> removed]
NoStoreCall == StoreCall("none", NoName, NoTool, FALSE, FALSE)

\* a request slot: the request, where its handler stands, and what it did
IdleReq ==
    [pc |-> "idle", s |-> "A", method |-> "none", name |-> NoName, arg |-> "text",
     expr |-> DefaultExpr, tool |-> NoTool, c |-> 0, out |-> [threw |-> FALSE, value |-> NoResult],
     passes |-> 0, sent |-> 0, lost |-> FALSE, raised |-> FALSE, resp |-> NoResult,
     listing |-> <<>>]

\* the scenarios: one session with a long run of greetings, one session
\* with a short run of every input, two sessions with short runs, one
\* session with a short run over a transport that may fail to deliver;
\* and, apart from these, two sessions of which the first has tools that
\* hang and sends less than a batch, and one session that greets and
\* calculates, one request at a time
Scenarios == {"long", "short", "iso", "lossy", "seq", "prune"}
Quota(scn) ==
    [s \in Sessions |->
        IF scn = "iso" THEN MaxIsoCalls
        ELSE IF scn = "hang" THEN (IF s = "A" THEN MaxBatch - 1 ELSE MaxIsoCalls)
        ELSE IF s # "A" THEN 0
        ELSE IF scn = "long" THEN MaxCalls
        ELSE IF scn = "short" THEN MaxShort
        ELSE IF scn = "lossy" THEN MaxLossy
        ELSE IF scn = "calc" THEN MaxCalc
        ELSE IF scn = "seq" THEN MaxSeq
        ELSE IF scn = "prune" THEN MaxPrune ELSE MaxStore]

InitIn(scenarios) ==
    /\ policy \in Policies
    /\ scenario \in scenarios
    /\ tools = [s \in Sessions |-> InitialTools(policy)]
    /\ callCount = [s \in Sessions |-> 0]
    /\ clock = ClockBase
    /\ notifs = [s \in Sessions |-> 0]
    /\ lost = [s \in Sessions |-> 0]
    /\ recent = [s \in Sessions |-> <<>>]
    /\ req = [i \in Slots |-> IdleReq]
    /\ microtasks = <<>>
    /\ quota = Quota(scenario)
    /\ storeCall = NoStoreCall

Init == InitIn(Scenarios)

(***************************************************************************)
(* The identifiers a client asks for: the fixed tools, the minted followup *)
(* tools it has been told of, and one that never exists.                   *)
(***************************************************************************)
CallNames(s) ==
    IF scenario = "long" THEN {Greet}
    ELSE IF scenario \in {"iso", "hang", "lossy"} THEN {Greet, Missing}
    ELSE IF scenario = "calc" THEN {Greet, Calculate}
    ELSE IF scenario = "seq" THEN {Greet, GetStatus}
    ELSE IF scenario = "prune"
         THEN IF Cardinality({n \in DOMAIN tools[s] : IsFollowupName(n)}) < KeepFollowups
              THEN {Greet}
              ELSE {GetStatus} \cup {n \in DOMAIN tools[s] : IsFollowupName(n)}
    ELSE {Greet, Calculate, GetStatus, Followup, Missing}
            \cup {n \in DOMAIN tools[s] : IsFollowupName(n)}
CallArgs ==
    IF scenario = "short" THEN Args
    ELSE IF scenario = "calc" THEN {"text", "missing"}
    ELSE {"text"}
CallExprs(name, arg) ==
    IF scenario = "calc" /\ name = Calculate /\ arg = "text" THEN Expressions
    ELSE {DefaultExpr}
\* whether the transport delivers a notification
Deliveries == IF scenario = "lossy" THEN BOOLEAN ELSE {TRUE}
\* the session whose tools have handlers whose promise never settles
Hangs(s) == scenario = "hang" /\ s = "A"

\* no request of the current batch has started to run
Assembling == \A i \in Slots : req[i].pc \in {"idle", "queued"}

(***************************************************************************)
(* A request arrives.  The transport hands every message of a batch to the *)
(* protocol layer in one synchronous loop, and each handler is started     *)
(* from a microtask; so requests join the batch only before its first      *)
(* microtask runs, and a new batch starts when the queue has drained.      *)
(***************************************************************************)
Receive(s, method, name, arg, e) ==
    /\ quota[s] > 0
    /\ microtasks = <<>> \/ (Assembling /\ scenario \notin {"calc", "seq"})
    /\ Len(microtasks) < MaxBatch
    /\ LET i == Len(microtasks) + 1
           r == [IdleReq EXCEPT !.pc = "queued", !.s = s, !.method = method,
                                !.name = name, !.arg = arg, !.expr = e]
       IN  /\ req' = [j \in Slots |->
                        IF j = i THEN r
                        ELSE IF microtasks = <<>> THEN IdleReq ELSE req[j]]
           /\ microtasks' = Append(microtasks, i)
    /\ quota' = IF scenario = "long" /\ method = "list" THEN quota
                ELSE [quota EXCEPT ![s] = @ - 1]
    /\ UNCHANGED <<policy, scenario, storeCall, tools, callCount, clock, notifs, lost, recent>>

ReceiveCall == \E s \in Sessions : \E name \in CallNames(s) : \E arg \in CallArgs :
    \E e \in CallExprs(name, arg) : Receive(s, "call", name, arg, e)

\* in the long scenario the client lists once the window has filled, once
\* in a batch and after a call (its quota counts the calls)
ReceiveList == \E s \in Sessions :
    /\ scenario = "long" =>
           /\ callCount[s] >= KeepFollowups
           /\ microtasks # <<>>
           /\ \A i \in Slots : req[i].method # "list"
    /\ scenario \notin {"seq", "prune"}
    /\ Receive(s, "list", NoName, "text", DefaultExpr)

(***************************************************************************)
(* tools/list handler: one microtask, no await.                            *)
(***************************************************************************)
ListTools ==
    /\ microtasks # <<>>
    /\ LET p == Head(microtasks)
           s == req[p].s
       IN  /\ req[p].pc = "queued"
           /\ req[p].method = "list"
           /\ req' = [req EXCEPT ![p].pc = "done", ![p].listing = ListResult(tools[s])]
    /\ microtasks' = Tail(microtasks)
    /\ UNCHANGED <<policy, scenario, storeCall, tools, callCount, clock, notifs, lost, recent, quota>>

\* continuations kept in one chain: the one of request p waits in line
\* behind every handler promise of the batch that is still pending
AwaitInTurn(q, p) ==
    IF \/ Hangs(req[p].s)
       \/ \E j \in Slots :
              /\ req[j].pc = "awaitHandler" /\ Hangs(req[j].s)
              /\ \A k \in 1..Len(q) : q[k] # j
    THEN q ELSE Append(q, p)

\* await tool.handler(args || {}): the continuation of request p joins the
\* queue q when the handler's promise settles, and never if it does not
AwaitHandler(q, p) == IF Hangs(req[p].s) THEN q ELSE Append(q, p)

(***************************************************************************)
(* tools/call handler, first part: the lookup, the McpError, the counter   *)
(* increment and the call of the tool's handler, up to the await of the    *)
(* handler's promise.  The continuation is queued when the promise         *)
(* settles; after a promise that never settles it never runs.              *)
(***************************************************************************)
DispatchStart ==
    /\ microtasks # <<>>
    /\ LET p == Head(microtasks)
           s == req[p].s
           name == req[p].name
           tool == MapGet(tools[s], name)
       IN  /\ req[p].pc = "queued"
           /\ req[p].method = "call"
           /\ IF tool = NoTool
              THEN /\ req' = [req EXCEPT ![p].pc = "done", ![p].resp = Fault(name)]
                   /\ microtasks' = Tail(microtasks)
                   /\ UNCHANGED callCount
              ELSE LET count == Increment(callCount[s])
                   IN  /\ callCount' = SetFor(callCount, s, count)
                       /\ req' = [req EXCEPT
                                    ![p].pc = "awaitHandler",
                                    ![p].tool = tool,
                                    ![p].c = count,
                                    ![p].out = RunHandler(policy, name, tool, req[p].arg,
                                                          req[p].expr,
                                                          count, tools[s])]
                       /\ microtasks' = AwaitHandler(Tail(microtasks), p)
    /\ UNCHANGED <<policy, scenario, storeCall, tools, clock, notifs, lost, recent, quota>>

\* Date.now(): the clock does not run backwards
Readings ==
    IF scenario = "seq" THEN {clock + 1}
    ELSE {t \in {clock, clock + 1} : t <= ClockBase + MaxTicks}

\* the last KeepFollowups elements of q
LastMinted(q) ==
    IF Len(q) > KeepFollowups THEN SubSeq(q, Len(q) - KeepFollowups + 1, Len(q)) ELSE q

(***************************************************************************)
(* tools/call handler, second part: the handler's promise has settled.  A  *)
(* rejection goes to the catch branch; otherwise updateToolsAfterCall runs *)
(* (synchronously: it awaits nothing) and its promise is awaited.  The     *)
(* pass ends with notifyToolsChanged, which hands the notification to the  *)
(* transport.                                                              *)
(***************************************************************************)
DispatchAfterHandler ==
    /\ microtasks # <<>>
    /\ LET p == Head(microtasks)
           s == req[p].s
           name == req[p].name
       IN  /\ req[p].pc = "awaitHandler"
           /\ IF req[p].out.threw
              THEN /\ req' = [req EXCEPT ![p].pc = "done", ![p].resp = ErrorResult(name)]
                   /\ microtasks' = Tail(microtasks)
                   /\ UNCHANGED <<tools, notifs, lost, clock, recent>>
              ELSE \E t \in IF policy = "sliding" THEN Readings ELSE {clock} :
                   \E delivered \in Deliveries :
                   LET upd == updateToolsAfterCall(policy, tools[s], name, callCount[s], t)
                       note == notifyToolsChanged(delivered)
                       failed == upd.sent > 0 /\ note.lost
                   IN  /\ tools' = SetFor(tools, s, upd.tools)
                       /\ notifs' = SetFor(notifs, s, notifs[s] + upd.sent)
                       /\ lost' = SetFor(lost, s, lost[s] + IF failed THEN 1 ELSE 0)
                       /\ clock' = t
                       /\ recent' = IF policy = "sliding"
                                    THEN SetFor(recent, s,
                                            LastMinted(Append(recent[s],
                                                              MintedName("followup_", t))))
                                    ELSE recent
                       /\ req' = [req EXCEPT ![p].pc = "awaitUpdate",
                                             ![p].passes = @ + 1,
                                             ![p].sent = @ + upd.sent,
                                             ![p].lost = failed,
                                             ![p].raised = upd.sent > 0 /\ note.raised]
                       /\ microtasks' = Append(Tail(microtasks), p)
    /\ UNCHANGED <<policy, scenario, storeCall, callCount, quota>>

\* a dispatcher that looks the identifier up again before it answers
DispatchAfterUpdateLooksUpAgain ==
    /\ microtasks # <<>>
    /\ LET p == Head(microtasks)
       IN  /\ req[p].pc = "awaitUpdate"
           /\ req' = [req EXCEPT ![p].pc = "done",
                                 ![p].resp = IF MapGet(tools[req[p].s], req[p].name) = NoTool
                                             THEN Fault(req[p].name)
                                             ELSE req[p].out.value]
    /\ microtasks' = Tail(microtasks)
    /\ UNCHANGED <<policy, scenario, storeCall, tools, callCount, clock, notifs, lost, recent, quota>>

(***************************************************************************)
(* tools/call handler, last part: return result, or the catch branch when *)
(* the promise of updateToolsAfterCall rejected.                           *)
(***************************************************************************)
DispatchAfterUpdate ==
    /\ microtasks # <<>>
    /\ LET p == Head(microtasks)
       IN  /\ req[p].pc = "awaitUpdate"
           /\ req' = [req EXCEPT ![p].pc = "done",
                                 ![p].resp = IF req[p].raised THEN ErrorResult(req[p].name)
                                             ELSE req[p].out.value]
    /\ microtasks' = Tail(microtasks)
    /\ UNCHANGED <<policy, scenario, storeCall, tools, callCount, clock, notifs, lost, recent, quota>>

(***************************************************************************)
(* addTool and removeTool are public methods of the exported class: code   *)
(* that holds a server object calls them with any identifier, descriptor   *)
(* and notify flag.                                                        *)
(***************************************************************************)
StoreNames == {Greet, Calculate, Missing, MintedName("followup_", ClockBase)}
StoreConfigs == {Descriptor("greet", NoName, 0), Descriptor("followup", Greet, MaxStore)}

AddToolCall == \E name \in StoreNames : \E config \in StoreConfigs : \E notify \in BOOLEAN :
    /\ scenario = "store"
    /\ quota["A"] > 0
    /\ LET r == addTool(tools["A"], name, config, notify)
       IN  /\ tools' = SetFor(tools, "A", r.tools)
           /\ notifs' = SetFor(notifs, "A", notifs["A"] + r.sent)
           /\ storeCall' = StoreCall("addTool", name, config, notify, FALSE)
    /\ quota' = [quota EXCEPT !["A"] = @ - 1]
    /\ UNCHANGED <<policy, scenario, callCount, clock, lost, recent, req, microtasks>>

RemoveToolCall == \E name \in StoreNames : \E notify \in BOOLEAN :
    /\ scenario = "store"
    /\ quota["A"] > 0
    /\ LET r == removeTool(tools["A"], name, notify)
       IN  /\ tools' = SetFor(tools, "A", r.tools)
           /\ notifs' = SetFor(notifs, "A", notifs["A"] + r.sent)
           /\ storeCall' = StoreCall("removeTool", name, NoTool, notify, r.removed)
    /\ quota' = [quota EXCEPT !["A"] = @ - 1]
    /\ UNCHANGED <<policy, scenario, callCount, clock, lost, recent, req, microtasks>>

NextStore ==
    \/ AddToolCall
    \/ RemoveToolCall

InitStore == InitIn({"store"})
SpecStore == InitStore /\ [][NextStore]_vars

Next ==
    \/ ReceiveCall
    \/ ReceiveList
    \/ ListTools
    \/ DispatchStart
    \/ DispatchAfterHandler
    \/ DispatchAfterUpdate

Spec == Init /\ [][Next]_vars

(***************************************************************************)
(* Properties.                                                             *)
(***************************************************************************)
\* the request whose microtask runs next
Cur == Head(microtasks)
\* the next microtask is the first part of a tools/call
AtDispatchStart ==
    /\ microtasks # <<>>
    /\ req[Cur].pc = "queued"
    /\ req[Cur].method = "call"
\* slot i holds a tools/call that passed the lookup
Passed(i) == req[i].method = "call" /\ req[i].c > 0
CallSlots(s) == {i \in Slots : req[i].s = s /\ Passed(i)}
UnlockedNames == {Greet, Calculate, GetStatus, Followup}
FollowupsOf(reg) == {n \in DOMAIN reg : IsFollowupName(n)}

\* C1: a tools/call naming an identifier that is absent from the session's
\* registry when the handler starts ends in the MethodNotFound fault and
\* leaves the registry, the counter and the notification count as they
\* were; it runs no mutation pass.
C1_NotFoundChangesNothing ==
    [][ (/\ AtDispatchStart
         /\ ~Has(tools[req[Cur].s], req[Cur].name)
         /\ req'[Cur].pc # req[Cur].pc)
        => (/\ req'[Cur].pc = "done"
            /\ req'[Cur].resp = Fault(req[Cur].name)
            /\ req'[Cur].passes = 0
            /\ req'[Cur].sent = 0
            /\ tools' = tools
            /\ callCount' = callCount
            /\ notifs' = notifs
            /\ recent' = recent) ]_vars

\* a NotFound fault was returned on a session that had calls before it
C1_Witness ==
    \E i \in Slots :
        /\ req[i].pc = "done"
        /\ req[i].resp.kind = "fault"
        /\ callCount[req[i].s] > 0
        /\ notifs[req[i].s] > 0

\* C2: the counter of every session starts at 0, goes up by exactly 1 in the
\* step in which a tools/call passes the lookup, and is left alone by every
\* other step (a NotFound, a list request, a continuation); in the long
\* scenario, where every call is found, it equals the number of calls whose
\* handler has started.
C2_StepCounts ==
    \A s \in Sessions :
        callCount'[s] =
            IF /\ AtDispatchStart
               /\ req[Cur].s = s
               /\ Has(tools[s], req[Cur].name)
               /\ req'[Cur].pc # req[Cur].pc
            THEN callCount[s] + 1
            ELSE callCount[s]
C2_CountsStarted ==
    scenario = "long" =>
        callCount["A"] = (MaxCalls - quota["A"])
                            - Cardinality({i \in Slots : req[i].pc = "queued"
                                                          /\ req[i].method = "call"})
C2_CounterCountsDispatches ==
    /\ \A s \in Sessions : callCount[s] = 0
    /\ []C2_CountsStarted
    /\ [][C2_StepCounts]_vars

\* the counter has counted calls around a NotFound and a list request
C2_Witness ==
    /\ callCount["A"] = 2
    /\ quota["A"] = 0
    /\ microtasks = <<>>
    /\ \E i \in Slots : req[i].resp.kind = "fault" \/ req[i].method = "list"

\* C3: unlock policy: a session that has had no call holds exactly greet;
\* once the first call of the session, a greet whose handler returned, has
\* run its mutation pass (and no other call has started), the registry
\* holds exactly greet, calculate, get_status and followup, and one
\* list-changed notification has been sent, by that dispatch.
C3_GreetUnlocksThree ==
    policy = "unlock" =>
        \A s \in Sessions :
            /\ callCount[s] = 0 => DOMAIN tools[s] = {Greet}
            /\ \A i \in CallSlots(s) :
                (/\ callCount[s] = 1
                 /\ req[i].name = Greet
                 /\ ~req[i].out.threw
                 /\ req[i].pc \in {"awaitUpdate", "done"})
                => (/\ DOMAIN tools[s] = UnlockedNames
                    /\ Cardinality(DOMAIN tools[s]) = 4
                    /\ req[i].passes = 1
                    /\ req[i].sent = 1
                    /\ notifs[s] = 1)

\* the first greet of a session has returned its greeting
C3_Witness ==
    /\ policy = "unlock"
    /\ callCount["A"] = 1
    /\ \E i \in CallSlots("A") :
        /\ req[i].name = Greet
        /\ req[i].pc = "done"
        /\ req[i].resp.handler = "greet"
        /\ Cardinality(DOMAIN tools["A"]) = 4

\* the identifiers in a sequence
Range(q) == {q[k] : k \in 1..Len(q)}
MilestonesOf(reg) == {n \in DOMAIN reg : n.base = "milestone_"}
\* no request is pending
Quiet == microtasks = <<>>

\* C4: sliding-window policy: when 10 calls have been made and have run
\* their mutation passes, the registry holds at most 3 followup_ tools and
\* they are the ones minted last, every older one being absent.
C4_WindowKeepsNewest ==
    policy = "sliding" =>
        \A s \in Sessions :
            (callCount[s] = 10 /\ Quiet)
            => (/\ Cardinality(FollowupsOf(tools[s])) <= KeepFollowups
                /\ FollowupsOf(tools[s]) = Range(recent[s]))

\* the next microtask is the second part of a tools/call and runs the pass
AtMutationPass ==
    /\ microtasks # <<>>
    /\ req[Cur].pc = "awaitHandler"
    /\ ~req[Cur].out.threw

\* C5: sliding-window policy: the mutation pass of the dispatch whose own
\* increment produced c adds milestone_c when 5 divides c and adds no
\* milestone tool otherwise; so when n calls have been made and no request
\* is pending the registry holds milestone_c exactly for the multiples of 5
\* up to n.
C5_PassAddsOwnMilestone ==
    (policy = "sliding" /\ AtMutationPass /\ req'[Cur].pc = "awaitUpdate")
    => LET s == req[Cur].s
           c == req[Cur].c
       IN  IF c % MilestoneEvery = 0
           THEN Has(tools'[s], MintedName("milestone_", c))
           ELSE MilestonesOf(tools'[s]) = MilestonesOf(tools[s])
C5_MilestonesAreMultiples ==
    (policy = "sliding" /\ Quiet)
    => \A s \in Sessions :
        MilestonesOf(tools[s]) =
            {MintedName("milestone_", c) : c \in {k \in 1..callCount[s] : k % MilestoneEvery = 0}}
C5_MilestoneEveryFifth ==
    /\ []C5_MilestonesAreMultiples
    /\ [][C5_PassAddsOwnMilestone]_vars

\* slot i holds a tools/call that has returned after its handler failed
Errored(i) == Passed(i) /\ req[i].pc = "done" /\ req[i].out.threw

\* C6: a tools/call whose handler failed has still run its mutation pass
\* when it returns.
C6_FailedHandlerStillMutates ==
    \A i \in Slots : Errored(i) => req[i].passes = 1

\* the microtasks of pending requests
Run == ListTools \/ DispatchStart \/ DispatchAfterHandler \/ DispatchAfterUpdate

\* C7: a tools/call whose handler failed returns a normal response with
\* isError = true that names the tool, not a fault; it has taken one value
\* of the counter (the next call to start on the session takes the next
\* one), and the session goes on: pending microtasks can run, a new request
\* is accepted, and a later call of the batch whose handler succeeds
\* returns that handler's result after one mutation pass.
C7_FailureIsErrorResponse ==
    \A i \in Slots : Errored(i) =>
        LET s == req[i].s
        IN  /\ req[i].resp.kind = "result"
            /\ req[i].resp.isError
            /\ req[i].resp.tool = req[i].name
            /\ req[i].c >= 1
            /\ req[i].c <= callCount[s]
            /\ \A j \in CallSlots(s) :
                (j > i /\ ~\E k \in CallSlots(s) : i < k /\ k < j)
                => req[j].c = req[i].c + 1
            /\ \A j \in CallSlots(s) :
                (j > i /\ req[j].pc = "done" /\ ~req[j].out.threw)
                => (req[j].resp = req[j].out.value /\ req[j].passes = 1)
            /\ microtasks # <<>> => ENABLED Run
            /\ (Quiet /\ quota[s] > 0) => ENABLED ReceiveCall

\* a failed call was followed, on the same session, by a call that returned
\* its handler's result
C7_Witness ==
    \E i \in Slots : \E j \in Slots :
        /\ Errored(i)
        /\ j > i
        /\ req[j].s = req[i].s
        /\ Passed(j)
        /\ req[j].pc = "done"
        /\ req[j].resp.kind = "result"
        /\ ~req[j].resp.isError
        /\ req[j].c = req[i].c + 1

\* C8: every tools/call that passed the lookup has, when it returns, run
\* exactly one mutation pass and sent at most one list-changed
\* notification.
C8_OnePassOneNotification ==
    \A i \in Slots :
        (Passed(i) /\ req[i].pc = "done")
        => (req[i].passes = 1 /\ req[i].sent <= 1)

\* slot i holds a tools/call that has returned its handler's result
Returned(i) == Passed(i) /\ req[i].pc = "done" /\ ~req[i].out.threw

\* C9: when a tools/call returns its handler's result, its mutation pass
\* has been applied and its notification sent: the returning step itself
\* changes neither the registry nor the notification count, the registry
\* then shows the pass (the unlocked tools after greet; a followup_ tool
\* under the sliding window), and a list request that runs once a
\* notification has been sent returns a registry that shows it.
C9_ReturnedMeansApplied ==
    \A i \in Slots : Returned(i) =>
        LET s == req[i].s
        IN  /\ req[i].resp = req[i].out.value
            /\ req[i].passes = 1
            /\ notifs[s] >= req[i].sent
            /\ (policy = "unlock" /\ req[i].name = Greet)
                => (req[i].sent = 1 /\ UnlockedNames \subseteq DOMAIN tools[s])
            /\ policy = "sliding"
                => (req[i].sent = 1 /\ FollowupsOf(tools[s]) # {})
C9_ReturnStep ==
    (microtasks # <<>> /\ req[Cur].pc = "awaitUpdate" /\ req'[Cur].pc = "done")
    => (/\ req[Cur].passes = 1
        /\ tools' = tools
        /\ notifs' = notifs)
C9_ListStep ==
    (/\ microtasks # <<>>
     /\ req[Cur].pc = "queued"
     /\ req[Cur].method = "list"
     /\ req'[Cur].pc = "done"
     /\ notifs[req[Cur].s] >= 1)
    => (/\ DOMAIN req'[Cur].listing = DOMAIN tools[req[Cur].s]
        /\ policy = "unlock" => UnlockedNames \subseteq DOMAIN req'[Cur].listing
        /\ policy = "sliding" => FollowupsOf(req'[Cur].listing) # {})
C9_MutationBeforeResponse ==
    /\ []C9_ReturnedMeansApplied
    /\ [][C9_ReturnStep /\ C9_ListStep]_vars

\* a greet has returned and a list request of the same batch has returned
\* the registry
C9_Witness ==
    \E i \in Slots : \E j \in Slots :
        /\ Returned(i)
        /\ req[i].name = Greet
        /\ req[i].sent = 1
        /\ req[j].method = "list"
        /\ req[j].pc = "done"
        /\ req[j].s = req[i].s
        /\ notifs[req[i].s] >= 2

\* slot i holds a tools/call that has incremented the counter and has not
\* yet run its mutation pass
Between(i) == Passed(i) /\ req[i].pc = "awaitHandler"

\* C10: two calls on one session never interleave: while one is between its
\* counter increment and the end of its mutation pass, no other call on the
\* session has incremented the counter.
C10_NoInterleaving ==
    \A i \in Slots : \A j \in Slots :
        (i # j /\ req[i].s = req[j].s) => ~(Between(i) /\ Between(j))

(***************************************************************************)
(* C11: the mutation pass is atomic to every observer.  Under the sliding  *)
(* policy the registry holds at most KeepFollowups followup_ identifiers   *)
(* in every state, whatever requests are pending, and so does every        *)
(* listing returned; a tools/list returns the identifiers the registry     *)
(* holds when its microtask runs, and get_status reports the size the      *)
(* registry has then, also when a call of the same batch has yet to run    *)
(* its pass.                                                               *)
(***************************************************************************)
C11_WindowNeverExceeded ==
    policy = "sliding" =>
        /\ \A s \in Sessions : Cardinality(FollowupsOf(tools[s])) <= KeepFollowups
        /\ \A i \in Slots :
               (req[i].method = "list" /\ req[i].pc = "done")
               => Cardinality(FollowupsOf(req[i].listing)) <= KeepFollowups
C11_ObserverStep ==
    (microtasks # <<>> /\ req[Cur].pc = "queued")
    => /\ (req[Cur].method = "list" /\ req'[Cur].pc = "done")
          => DOMAIN req'[Cur].listing = DOMAIN tools[req[Cur].s]
       /\ (req[Cur].method = "call" /\ req'[Cur].pc = "awaitHandler"
              /\ req'[Cur].tool.handler = "get_status")
          => req'[Cur].out.value.size = Cardinality(DOMAIN tools[req[Cur].s])
C11_PassIsAtomic == []C11_WindowNeverExceeded /\ [][C11_ObserverStep]_vars

\* the window is full, a pass has pruned it, and a listing taken while a
\* call of the same batch was pending has been returned
C11_Witness ==
    /\ policy = "sliding"
    /\ \E i \in Slots : \E j \in Slots :
           /\ req[i].method = "list" /\ req[i].pc = "done"
           /\ Cardinality(FollowupsOf(req[i].listing)) = KeepFollowups
           /\ req[j].s = req[i].s /\ Passed(j) /\ req[j].passes = 1
           /\ DOMAIN req[i].listing # DOMAIN tools[req[i].s]

(***************************************************************************)
(* C12: the NotFound decision is taken against the registry of the state   *)
(* in which the call starts.  The call is answered with the fault exactly  *)
(* when its identifier is absent from that registry, and otherwise runs    *)
(* the descriptor found there; under the unlock policy calculate,          *)
(* get_status and followup are found exactly when a pass of greet has run  *)
(* before.  The registry changes only in a mutation pass, and a fault once *)
(* given stays the response whatever a later pass of the batch adds.       *)
(***************************************************************************)
C12_LookupStep ==
    (AtDispatchStart /\ req'[Cur].pc # "queued") =>
        LET s == req[Cur].s
            name == req[Cur].name
            found == req'[Cur].pc = "awaitHandler"
        IN  /\ found <=> Has(tools[s], name)
            /\ ~found <=> (req'[Cur].pc = "done" /\ req'[Cur].resp = Fault(name))
            /\ found => req'[Cur].tool = tools[s][name]
            /\ (policy = "unlock" /\ name \in UnlockedNames \ {Greet})
               => (found <=> notifs[s] >= 1)
C12_FaultIsFinal ==
    \A i \in Slots :
        (req[i].pc = "done" /\ req[i].resp.kind = "fault" /\ microtasks # <<>>)
        => req'[i] = req[i]
C12_OnlyPassesMutate ==
    tools' # tools => (microtasks # <<>> /\ req[Cur].pc = "awaitHandler")
C12_LookupAtStart == [][C12_LookupStep /\ C12_FaultIsFinal /\ C12_OnlyPassesMutate]_vars

\* a call of calculate was answered with the fault, and the pass of a greet
\* of the same batch has added calculate since
C12_Witness ==
    /\ policy = "unlock"
    /\ \E i \in Slots : \E j \in Slots :
           /\ req[i].pc = "done" /\ req[i].resp = Fault(Calculate)
           /\ req[j].s = req[i].s /\ req[j].name = Greet /\ req[j].passes = 1
           /\ Has(tools[req[i].s], Calculate)

(***************************************************************************)
(* C13: under the sliding policy the followup_ identifiers minted on a     *)
(* session are pairwise distinct and sort in the order of their creation:  *)
(* of the identifiers minted last, every one is below every later one in   *)
(* the order the pruning step sorts by, two passes in one clock tick       *)
(* included.                                                               *)
(***************************************************************************)
C13_MintsDistinctAndOrdered ==
    policy = "sliding" =>
        \A s \in Sessions : \A k \in 1..Len(recent[s]) : \A l \in 1..Len(recent[s]) :
            k < l => NameLess(recent[s][k], recent[s][l])

(***************************************************************************)
(* C14: session isolation.  A step changes the registry, the counter, the  *)
(* notification count and the minted identifiers of no session but the one *)
(* of the request whose microtask runs; a request on session A leaves all  *)
(* of them unchanged on session B.                                         *)
(***************************************************************************)
SessionState(s) == <<tools[s], callCount[s], notifs[s], lost[s], recent[s]>>
C14_StepTouchesOwnSession ==
    \A s \in Sessions :
        SessionState(s)' # SessionState(s)
        => (microtasks # <<>> /\ req[Cur].s = s /\ req[Cur].method = "call")
C14_SessionIsolation == [][C14_StepTouchesOwnSession]_vars

\* session A has been greeted twice and listed nothing; session B has
\* spent its requests on a list and an unknown tool and is as constructed
C14_Witness ==
    /\ scenario = "iso"
    /\ callCount["A"] = 2 /\ notifs["A"] >= 1
    /\ quota["B"] = 0 /\ microtasks = <<>>
    /\ SessionState("B") = <<InitialTools(policy), 0, 0, 0, <<>> >>
    /\ tools["A"] # tools["B"]

(***************************************************************************)
(* C15: a list-changed notification the transport fails to deliver costs   *)
(* nothing but the notification.  The call that triggered it returns its   *)
(* handler's result, not an error; its mutation stays applied; the         *)
(* notification is sent once and not again (each pass makes one send, and  *)
(* when the session is idle the sends equal the calls that ran a pass);    *)
(* and a tools/list that runs after the failure returns the registry with  *)
(* the mutation in it.                                                     *)
(***************************************************************************)
C15_LostNotificationState ==
    /\ \A i \in Slots :
           (Returned(i) /\ req[i].lost)
           => /\ req[i].resp = req[i].out.value
              /\ req[i].resp.kind = "result" /\ ~req[i].resp.isError
              /\ req[i].passes = 1 /\ req[i].sent = 1
              /\ policy = "unlock" => UnlockedNames \subseteq DOMAIN tools[req[i].s]
              /\ policy = "sliding" => FollowupsOf(tools[req[i].s]) # {}
    /\ \A s \in Sessions :
           /\ lost[s] <= notifs[s]
           /\ (scenario = "lossy" /\ microtasks = <<>>) => notifs[s] = callCount[s]
C15_ListAfterLoss ==
    (/\ microtasks # <<>>
     /\ req[Cur].pc = "queued"
     /\ req[Cur].method = "list"
     /\ req'[Cur].pc = "done"
     /\ lost[req[Cur].s] >= 1)
    => /\ DOMAIN req'[Cur].listing = DOMAIN tools[req[Cur].s]
       /\ policy = "unlock" => UnlockedNames \subseteq DOMAIN req'[Cur].listing
       /\ policy = "sliding" => FollowupsOf(req'[Cur].listing) # {}
C15_DeliveryFailureIsHarmless == []C15_LostNotificationState /\ [][C15_ListAfterLoss]_vars

\* every notification of the session was lost, the calls have returned,
\* and a later list has returned the unlocked tools
C15_Witness ==
    /\ policy = "unlock"
    /\ lost["A"] >= 1 /\ lost["A"] = notifs["A"]
    /\ microtasks = <<>>
    /\ \E j \in Slots :
           /\ req[j].method = "list" /\ req[j].pc = "done"
           /\ UnlockedNames \subseteq DOMAIN req[j].listing

(***************************************************************************)
(* C16: the unlock policy never removes anything.  greet is in the         *)
(* registry of every session in every state, and an identifier that is in  *)
(* a registry is in it after every step.                                   *)
(***************************************************************************)
C16_GreetStays ==
    policy = "unlock" => \A s \in Sessions : Has(tools[s], Greet)
C16_NothingLeaves ==
    policy = "unlock" => \A s \in Sessions : DOMAIN tools[s] \subseteq DOMAIN tools'[s]
C16_UnlockNeverRemoves == []C16_GreetStays /\ [][C16_NothingLeaves]_vars

\* greet has been called again after it unlocked the three tools, and its
\* second pass has run: the registry still holds all four
C16_Witness ==
    /\ policy = "unlock"
    /\ \E i \in Slots :
           /\ Returned(i) /\ req[i].name = Greet /\ req[i].c >= 2
           /\ notifs[req[i].s] >= 2
           /\ DOMAIN tools[req[i].s] = UnlockedNames

(***************************************************************************)
(* C17: under both policies the registry of a session is never empty: the  *)
(* tools registered at construction are never removed (the sliding policy  *)
(* removes followup_ tools only).  Identifiers are unique because the      *)
(* registry is a map keyed by identifier: a listing has one entry per      *)
(* identifier of the registry.                                             *)
(***************************************************************************)
C17_RegistryNeverEmpty ==
    \A s \in Sessions :
        /\ DOMAIN tools[s] # {}
        /\ DOMAIN InitialTools(policy) \subseteq DOMAIN tools[s]
        /\ \A i \in Slots :
               (req[i].method = "list" /\ req[i].pc = "done")
               => /\ DOMAIN req[i].listing # {}
                  /\ DOMAIN InitialTools(policy) \subseteq DOMAIN req[i].listing

\* a followup tool that a listing returned has since been pruned, and the
\* registry still holds the three tools it started with
C17_Witness ==
    /\ policy = "sliding"
    /\ callCount["A"] > KeepFollowups
    /\ \E i \in Slots :
           /\ req[i].method = "list" /\ req[i].pc = "done" /\ req[i].s = "A"
           /\ \E n \in DOMAIN req[i].listing : IsFollowupName(n) /\ ~Has(tools["A"], n)

(***************************************************************************)
(* C18: listing is a pure read.  The step of a tools/list changes no       *)
(* session's registry, counter, notification counts or minted identifiers, *)
(* and returns one entry per identifier of the registry, with the          *)
(* description and the schema of its descriptor; two list requests of a    *)
(* session answered with no mutation pass between them (the lists of one   *)
(* batch all run before the first pass of the batch) return the same       *)
(* entries.                                                                *)
(***************************************************************************)
C18_ListStep ==
    (/\ microtasks # <<>>
     /\ req[Cur].pc = "queued"
     /\ req[Cur].method = "list"
     /\ req'[Cur].pc = "done")
    => LET reg == tools[req[Cur].s]
           got == req'[Cur].listing
       IN  /\ UNCHANGED <<tools, callCount, notifs, lost, recent>>
           /\ DOMAIN got = DOMAIN reg
           /\ \A n \in DOMAIN reg :
                  /\ got[n].inputSchema = reg[n].handler
                  /\ got[n].description.text = reg[n].handler
                  /\ got[n].description.count = reg[n].count
                  /\ IsFollowupName(n) => got[n].description.calledTool = reg[n].calledTool
C18_TwoListsAgree ==
    \A i \in Slots : \A j \in Slots :
        (/\ req[i].method = "list" /\ req[i].pc = "done"
         /\ req[j].method = "list" /\ req[j].pc = "done"
         /\ req[i].s = req[j].s)
        => req[i].listing = req[j].listing
C18_ListIsPureRead == []C18_TwoListsAgree /\ [][C18_ListStep]_vars

\* after a mutation pass, two list requests of one session have returned,
\* with more than the tools of construction in them
C18_Witness ==
    \E i \in Slots : \E j \in Slots :
        /\ i # j
        /\ req[i].method = "list" /\ req[i].pc = "done"
        /\ req[j].method = "list" /\ req[j].pc = "done"
        /\ req[i].s = req[j].s
        /\ notifs[req[i].s] >= 1
        /\ DOMAIN req[i].listing # DOMAIN InitialTools(policy)
        /\ req[i].listing = ListResult(tools[req[i].s])

(***************************************************************************)
(* C19, as stated: under the unlock policy, get_status called as the       *)
(* second call of a session (the first was the greet that unlocked it)     *)
(* reports a call count of 1.                                              *)
(***************************************************************************)
C19_StatusReportsOne ==
    policy = "unlock" =>
        \A i \in Slots :
            (Returned(i) /\ req[i].name = GetStatus /\ req[i].c = 2)
            => req[i].resp.count = 1

(***************************************************************************)
(* C19, amended: under the unlock policy the first call of a session, a    *)
(* greet, returns the greeting of the name it was given and a call count   *)
(* of 1; get_status called next, as the second call of the session,        *)
(* counts its own call: it reports a call count of 2, and 4 tools.         *)
(***************************************************************************)
C19_GreetThenStatus ==
    policy = "unlock" =>
        \A i \in Slots :
            /\ (Returned(i) /\ req[i].name = Greet /\ req[i].c = 1)
               => /\ req[i].resp.kind = "result" /\ ~req[i].resp.isError
                  /\ req[i].resp.handler = "greet"
                  /\ req[i].resp.text = req[i].arg
                  /\ req[i].resp.count = 1
            /\ (Returned(i) /\ req[i].name = GetStatus /\ req[i].c = 2)
               => /\ req[i].resp.kind = "result" /\ ~req[i].resp.isError
                  /\ req[i].resp.handler = "get_status"
                  /\ req[i].resp.count = 2
                  /\ req[i].resp.size = Cardinality(UnlockedNames)

\* get_status has returned as the second call of a session
C19_Witness ==
    /\ policy = "unlock"
    /\ \E i \in Slots :
           /\ Returned(i) /\ req[i].name = GetStatus /\ req[i].c = 2
           /\ callCount[req[i].s] = 2

(***************************************************************************)
(* The program with a session whose handlers hang: every tool of session A *)
(* returns a promise that never settles, session B has the tools of the    *)
(* program.  The event loop runs a pending microtask sooner or later.      *)
(***************************************************************************)
InitHang == InitIn({"hang"})
SpecHang == InitHang /\ [][Next]_vars /\ WF_vars(Run)

(***************************************************************************)
(* C20: a handler that never returns on session A blocks no other session. *)
(* With the event loop running every pending microtask sooner or later,    *)
(* every request of session B that has been received is answered: a call   *)
(* with its handler's result or with the fault, a list with the registry.  *)
(***************************************************************************)
C20_OtherSessionsProgress ==
    \A i \in Slots :
        (req[i].s = "B" /\ req[i].pc = "queued")
        ~> (/\ req[i].s = "B" /\ req[i].pc = "done"
            /\ req[i].method = "call" => req[i].resp.kind \in {"result", "fault"})

\* a call of session A is pending on a handler that will never settle, no
\* microtask is left, and a call of session B that started after it in the
\* same batch has returned its handler's result
C20_Witness ==
    /\ scenario = "hang"
    /\ microtasks = <<>>
    /\ \E i \in Slots : \E j \in Slots :
           /\ i < j
           /\ req[i].s = "A" /\ req[i].pc = "awaitHandler"
           /\ req[j].s = "B" /\ Returned(j) /\ req[j].resp.kind = "result"

(***************************************************************************)
(* The program with a client that greets and calculates: the expressions   *)
(* "a op b" for the operands and the operators of the model, and calls     *)
(* without an expression.                                                  *)
(***************************************************************************)
InitCalc == InitIn({"calc"})
SpecCalc == InitCalc /\ [][Next]_vars

(***************************************************************************)
(* C21: calculate absorbs every failure.  evaluateExpression returns "4"   *)
(* for "8 / 2" and the division-by-zero message for "8 / 0", and a call of *)
(* calculate that has passed the lookup ends, whatever its arguments, in   *)
(* a response that is no fault and has isError = false, after its counter  *)
(* increment and one mutation pass.                                        *)
(***************************************************************************)
C21_CalculateNeverFails ==
    /\ evaluateExpression(Expression(8, "/", 2)) = <<"4">>
    /\ evaluateExpression(Expression(8, "/", 0)) = <<"Cannot divide by zero">>
    /\ policy = "unlock" =>
           \A i \in Slots :
               (Passed(i) /\ req[i].tool.handler = "calculate" /\ req[i].pc = "done")
               => /\ req[i].resp.kind = "result"
                  /\ ~req[i].resp.isError
                  /\ req[i].c >= 1
                  /\ req[i].passes = 1

(***************************************************************************)
(* C22: a tools/call ends in a protocol fault exactly when its identifier  *)
(* was absent from the registry when the call started.  A call that found  *)
(* its tool (it has taken a value of the counter) is answered with a       *)
(* normal response: its handler's result, or an isError response when the  *)
(* handler failed or the promise of the mutation pass rejected.            *)
(***************************************************************************)
C22_Answered ==
    \A i \in Slots :
        (req[i].method = "call" /\ req[i].pc = "done")
        => /\ req[i].resp.kind \in {"fault", "result"}
           /\ req[i].resp.kind = "fault" <=> ~Passed(i)
           /\ Passed(i) =>
                  /\ req[i].resp.tool = req[i].name
                  /\ (req[i].out.threw \/ req[i].raised) <=> req[i].resp.isError
           /\ ~Passed(i) => req[i].resp = Fault(req[i].name)
C22_DecidedAtStart ==
    (AtDispatchStart /\ req'[Cur].pc # "queued")
    => (req'[Cur].c > 0 <=> Has(tools[req[Cur].s], req[Cur].name))
C22_FaultIffAbsent == []C22_Answered /\ [][C22_DecidedAtStart]_vars

\* one batch has been answered with a fault for an unknown tool and an
\* isError response for a tool whose handler failed
C22_Witness ==
    \E i \in Slots : \E j \in Slots :
        /\ req[i].method = "call" /\ req[i].pc = "done" /\ req[i].resp.kind = "fault"
        /\ req[j].method = "call" /\ req[j].pc = "done" /\ Passed(j)
        /\ req[j].resp.kind = "result" /\ req[j].resp.isError
        /\ req[i].s = req[j].s

(***************************************************************************)
(* C23: the store operations.  addTool(id, d) leaves the registry mapping  *)
(* id to d, every other entry as it was, and with notify = true sends one  *)
(* notification.  removeTool(id) returns true and deletes id when id was   *)
(* present, returns false and leaves the registry as it was when id was    *)
(* absent, and with notify = true sends one notification only in the first *)
(* case.  Without notify neither sends anything.                           *)
(***************************************************************************)
C23_StoreStep ==
    quota' # quota =>
        LET call == storeCall'
            before == tools["A"]
            after == tools'["A"]
            sent == notifs'["A"] - notifs["A"]
        IN  /\ \A n \in DOMAIN before \ {call.name} : Has(after, n) /\ after[n] = before[n]
            /\ call.op = "addTool" =>
                   /\ DOMAIN after = DOMAIN before \cup {call.name}
                   /\ after[call.name] = call.config
                   /\ sent = IF call.notify THEN 1 ELSE 0
            /\ call.op = "removeTool" =>
                   /\ call.removed <=> Has(before, call.name)
                   /\ DOMAIN after = DOMAIN before \ {call.name}
                   /\ ~call.removed => after = before
                   /\ sent = IF call.removed /\ call.notify THEN 1 ELSE 0
            /\ tools'["B"] = tools["B"] /\ notifs'["B"] = notifs["B"]
C23_StoreContract == [][C23_StoreStep]_vars

\* after an addTool that overwrote greet and notified, a removeTool with
\* notify = true of an identifier that is absent has returned false
C23_Witness ==
    /\ scenario = "store"
    /\ storeCall.op = "removeTool" /\ storeCall.notify /\ ~storeCall.removed
    /\ notifs["A"] = 1
    /\ tools["A"][Greet] = Descriptor("followup", Greet, MaxStore)

(***************************************************************************)
(* C24: evaluateExpression of dynamicMcpServer.js, on the text "a op b"    *)
(* with integers a and b of either sign and op one of + - * /, returns the *)
(* decimal string of a op b (for / where the quotient is an integer), and  *)
(* "Cannot divide by zero" for / with b = 0.                               *)
(***************************************************************************)
C24_Expected(e) ==
    IF e.op = "+" THEN NumberToString(e.a + e.b)
    ELSE IF e.op = "-" THEN NumberToString(e.a - e.b)
    ELSE IF e.op = "*" THEN NumberToString(e.a * e.b)
    ELSE IF e.b = 0 THEN <<"Cannot divide by zero">>
    ELSE LET q == CHOOSE k \in (-Abs(e.a))..Abs(e.a) : k * e.b = e.a
         IN  NumberToString(q)
C24_InRange(e) == e.op = "/" /\ e.b # 0 => Abs(e.a) % Abs(e.b) = 0
C24_EvaluatesSignedOperands ==
    policy = "unlock" =>
        \A i \in Slots :
            (/\ Returned(i)
             /\ req[i].tool.handler = "calculate"
             /\ req[i].arg = "text"
             /\ C24_InRange(req[i].expr))
            => req[i].resp.calc = C24_Expected(req[i].expr)

(***************************************************************************)
(* C25: under the unlock policy the identifiers of a session's registry    *)
(* are exactly {greet} or exactly {greet, calculate, get_status,           *)
(* followup}.  They are {greet} exactly while no greet dispatch of the     *)
(* session has completed its mutation pass: only the pass of a greet       *)
(* changes them, every such pass leaves all four, and a lookup of          *)
(* calculate, get_status or followup fails exactly while they are {greet}. *)
(***************************************************************************)
C25_TwoShapes ==
    policy = "unlock" =>
        \A s \in Sessions :
            \/ DOMAIN tools[s] = {Greet} /\ notifs[s] = 0
            \/ DOMAIN tools[s] = UnlockedNames /\ notifs[s] >= 1
C25_GreetPassStep ==
    /\ microtasks # <<>>
    /\ req[Cur].pc = "awaitHandler"
    /\ req[Cur].name = Greet
    /\ req'[Cur].pc = "awaitUpdate"
C25_Step ==
    policy = "unlock" =>
        /\ \A s \in Sessions :
               DOMAIN tools'[s] # DOMAIN tools[s] => C25_GreetPassStep /\ req[Cur].s = s
        /\ C25_GreetPassStep => DOMAIN tools'[req[Cur].s] = UnlockedNames
        /\ (AtDispatchStart /\ req'[Cur].pc # "queued"
               /\ req[Cur].name \in UnlockedNames \ {Greet})
           => (req'[Cur].resp = Fault(req[Cur].name)
                   <=> DOMAIN tools[req[Cur].s] = {Greet})
C25_LockedUntilGreetPass == []C25_TwoShapes /\ [][C25_Step]_vars

\* calculate was refused before the greet of the same batch ran its pass;
\* the registry now holds all four
C25_Witness ==
    /\ policy = "unlock"
    /\ \E i, j \in Slots :
           /\ req[i].pc = "done" /\ req[i].resp = Fault(Calculate)
           /\ Returned(j) /\ req[j].name = Greet /\ req[j].s = req[i].s
           /\ DOMAIN tools[req[i].s] = UnlockedNames
           /\ notifs[req[i].s] = 1

(***************************************************************************)
(* C26: under the unlock policy the notifications issued on a session are  *)
(* as many as the greet dispatches whose handler succeeded.  The pass step *)
(* of each such dispatch issues exactly one, also when the registry        *)
(* already holds all four tools, and no other step issues any: a dispatch  *)
(* of calculate, get_status or followup issues none.                       *)
(***************************************************************************)
C26_Step ==
    policy = "unlock" =>
        \A s \in Sessions :
            notifs'[s] - notifs[s] =
                IF C25_GreetPassStep /\ req[Cur].s = s /\ ~req[Cur].out.threw THEN 1 ELSE 0
\* a dispatch that has returned has issued one notification if it was a
\* greet whose handler succeeded, and none otherwise
C26_PerDispatch ==
    policy = "unlock" =>
        \A i \in Slots :
            (req[i].method = "call" /\ req[i].pc = "done")
            => req[i].sent = IF req[i].name = Greet /\ Returned(i) THEN 1 ELSE 0
\* where only greet is called and every handler succeeds, the count of
\* notifications is the count of dispatches whose pass has run
C26_Count ==
    (policy = "unlock" /\ scenario = "long") =>
        \A s \in Sessions :
            notifs[s] = callCount[s]
                - Cardinality({i \in CallSlots(s) : req[i].pc = "awaitHandler"})
C26_State == C26_PerDispatch /\ C26_Count
C26_OnePerSuccessfulGreet == []C26_State /\ [][C26_Step]_vars

\* a repeated greet has notified again, and calls of calculate and
\* get_status have returned without a notification
C26_Witness ==
    /\ policy = "unlock"
    /\ notifs["A"] = 2
    /\ DOMAIN tools["A"] = UnlockedNames
    /\ \E i, j \in Slots :
           /\ Returned(i) /\ req[i].name = Greet /\ req[i].c = 2 /\ req[i].sent = 1
           /\ Returned(j) /\ req[j].name \in {Calculate, GetStatus} /\ req[j].sent = 0

(***************************************************************************)
(* C27: under the sliding-window policy only followup_ identifiers are     *)
(* ever removed.  The initial tools calculate, greet and get_status are in *)
(* the registry in every state, and no step takes out an identifier that   *)
(* does not start with followup_: a milestone_ or history_ tool stays once *)
(* it is in.                                                               *)
(***************************************************************************)
C27_InitialToolsStay ==
    policy = "sliding" =>
        \A s \in Sessions : {Calculate, Greet, GetStatus} \subseteq DOMAIN tools[s]
C27_Step ==
    policy = "sliding" =>
        \A s \in Sessions : \A n \in DOMAIN tools[s] :
            ~IsFollowupName(n) => Has(tools'[s], n)
C27_OnlyFollowupsLeave == []C27_InitialToolsStay /\ [][C27_Step]_vars

\* followups have been pruned; the milestone and the history tools of
\* earlier passes are still there
C27_Witness ==
    /\ policy = "sliding"
    /\ callCount["A"] >= 7
    /\ Cardinality(FollowupsOf(tools["A"])) = KeepFollowups
    /\ Has(tools["A"], MintedName("milestone_", 5))
    /\ Has(tools["A"], MintedName("history_", 3))
    /\ Has(tools["A"], MintedName("history_", 6))

(***************************************************************************)
(* C28: under the sliding-window policy, after n successful dispatches     *)
(* made one after another, each pass reading a later clock value than the  *)
(* one before, the registry holds 3 + min(n, 3) + floor(n / 5) +           *)
(* floor(n / 3) tools: the three initial ones, the last min(n, 3)          *)
(* followups, a milestone for every multiple of 5 and a history tool for   *)
(* every multiple of 3 up to n.                                            *)
(***************************************************************************)
C28_Multiples(k, n) == {c \in 1..n : c % k = 0}
C28_SizeAfterSequentialCalls ==
    (policy = "sliding" /\ scenario = "seq" /\ microtasks = <<>>) =>
        LET n == callCount["A"]
            reg == tools["A"]
            least == IF n < 3 THEN n ELSE 3
        IN  /\ Cardinality(DOMAIN reg) = 3 + least + (n \div 5) + (n \div 3)
            /\ {Calculate, Greet, GetStatus} \subseteq DOMAIN reg
            /\ FollowupsOf(reg) =
                   {MintedName("followup_", ClockBase + c) : c \in (n - least + 1)..n}
            /\ {m \in DOMAIN reg : m.base = "milestone_"} =
                   {MintedName("milestone_", c) : c \in C28_Multiples(5, n)}
            /\ {m \in DOMAIN reg : m.base = "history_"} =
                   {MintedName("history_", c) : c \in C28_Multiples(3, n)}

\* ten calls in a row: 3 + 3 + 2 + 3 tools
C28_Witness ==
    /\ policy = "sliding" /\ scenario = "seq" /\ microtasks = <<>>
    /\ callCount["A"] = 10
    /\ Cardinality(DOMAIN tools["A"]) = 11
    /\ clock = ClockBase + 10

(***************************************************************************)
(* C29: a dispatch executes the descriptor it captured at lookup.  The     *)
(* descriptor and the handler's outcome of a pending dispatch do not       *)
(* change while another dispatch's pass removes its identifier from the    *)
(* registry (pruning) or puts another descriptor under it; the dispatch    *)
(* has incremented the counter, still runs its own pass and notification,  *)
(* and returns the result of the handler it captured.                      *)
(***************************************************************************)
C29_Pending(i) == req[i].method = "call" /\ req[i].pc \in {"awaitHandler", "awaitUpdate"}
C29_Step ==
    /\ \A i \in Slots :
           C29_Pending(i) => (req'[i].tool = req[i].tool /\ req'[i].out = req[i].out)
    /\ (microtasks # <<>> /\ req[Cur].pc = "awaitHandler" /\ ~req[Cur].out.threw
           /\ policy = "sliding")
       => /\ req'[Cur].pc = "awaitUpdate"
          /\ req'[Cur].passes = 1
          /\ notifs'[req[Cur].s] = notifs[req[Cur].s] + 1
C29_CapturedResult ==
    \A i \in Slots :
        /\ (Passed(i) /\ ~req[i].out.threw)
           => /\ req[i].out.value.handler = req[i].tool.handler
              /\ req[i].tool.handler = "followup"
                 => req[i].out.value.after = req[i].tool.calledTool
        /\ Returned(i)
           => /\ req[i].resp = req[i].out.value
              /\ req[i].c >= 1
              /\ req[i].passes = 1
              /\ policy = "sliding" => req[i].sent = 1
C29_RunsCapturedDescriptor == []C29_CapturedResult /\ [][C29_Step]_vars

\* a call of the oldest followup has returned its captured handler's
\* result and run its pass after the pass of the greet before it in the
\* batch had pruned its identifier from the registry
C29_Witness ==
    /\ policy = "sliding"
    /\ \E i \in Slots :
           /\ Returned(i)
           /\ IsFollowupName(req[i].name)
           /\ ~Has(tools[req[i].s], req[i].name)
           /\ req[i].resp.handler = "followup"
           /\ req[i].resp.after = Greet
           /\ req[i].passes = 1 /\ req[i].sent = 1

(***************************************************************************)
(* C30: a handler observes the counter value its own dispatch's increment  *)
(* produced: the step that increments the counter is the step in which     *)
(* the handler reads it.  The greet (and get_status) response of the       *)
(* dispatch that moved the counter to k reports k, whatever other          *)
(* dispatches of the session start before it returns.                      *)
(***************************************************************************)
C30_CountingHandlers == {"greet", "get_status"}
C30_StartStep ==
    (AtDispatchStart /\ req'[Cur].pc = "awaitHandler") =>
        LET s == req[Cur].s
        IN  /\ callCount'[s] = callCount[s] + 1
            /\ req'[Cur].c = callCount'[s]
            /\ (~req'[Cur].out.threw /\ req'[Cur].tool.handler \in C30_CountingHandlers)
               => req'[Cur].out.value.count = callCount'[s]
C30_ReportsOwnCount ==
    \A i \in Slots :
        /\ (Passed(i) /\ ~req[i].out.threw /\ req[i].tool.handler \in C30_CountingHandlers)
           => req[i].out.value.count = req[i].c
        /\ (Returned(i) /\ req[i].tool.handler \in C30_CountingHandlers)
           => req[i].resp.count = req[i].c
        /\ \A j \in Slots :
               (Passed(i) /\ Passed(j) /\ i # j /\ req[i].s = req[j].s) => req[i].c # req[j].c
C30_HandlerSeesOwnIncrement == []C30_ReportsOwnCount /\ [][C30_StartStep]_vars

\* two greets of one batch: the first has returned reporting k when the
\* counter already stands at k + 1, and the second reports k + 1
C30_Witness ==
    \E i, j \in Slots :
        /\ Returned(i) /\ Returned(j) /\ req[i].s = req[j].s
        /\ req[i].name = Greet /\ req[j].name = Greet
        /\ req[i].resp.count = 2
        /\ req[j].resp.count = 3
        /\ callCount[req[i].s] = 3

====
